---------------------------- MODULE Spec2Model ----------------------------
(***************************************************************************)
(* A model of socos.py: the music library mirror (MusicLibrary.index and   *)
(* _index_single_type), the search path with its cache of ten searches     *)
(* (_search_and_play, _search), the queue manipulation (_play) and the     *)
(* transport commands that surround them.                                  *)
(*                                                                         *)
(* A value that an action computes once and uses several times is bound by *)
(* \E x \in { value }.                                                      *)
(*                                                                         *)
(* index and _search_and_play are Python generators.  The code between two *)
(* yields runs without interruption, so every action of the index          *)
(* generator is one such segment and index_pc names the yield at which the *)
(* generator is suspended.  A search generator is consumed to its end by   *)
(* process_cmd and is one action.                                          *)
(*                                                                         *)
(* Text is a sequence of symbols (each symbol one character, or one word   *)
(* that is never split): '=' , '%' and '_' are symbols of their own.       *)
(***************************************************************************)
EXTENDS Integers, Sequences, FiniteSets, TLC

VARIABLES
    dbdir,            \* the folder ~/.config/socos exists
    dbpath,           \* the file musiclib.db exists
    connection,       \* self.connection is set (and self.cursor with it)
    tables,           \* names of the tables the connection sees
    rows,             \* table name -> sequence of rows the connection sees
    committed,        \* [tables, rows] as of the last connection.commit()
    remote,           \* item-type -> number of items of the device's library
    transport,        \* current_transport_state of the device
    index_pc,         \* the yield at which the index generator is suspended
    data_type,        \* index generator: position in data_types (0: none)
    total,            \* index generator: total of _index_single_type
    count,            \* index generator: count of _index_single_type
    probed,           \* item-type -> total_matches of this run's probe (-1: none)
    cached_searches,  \* self.cached_searches, oldest insertion first
    inserted,         \* every key ever inserted into cached_searches, in order
    call,             \* the last command: [op, data_type, args]
    outcome,          \* how the last command ended, or "running"
    returned,         \* what the last command yielded last / returned
    sonos_calls,      \* calls the last search command made on the device
    store_queries,    \* SELECT ... LIKE queries the last search command ran
    history,          \* the index runs that ended and the resumptions, where kept
    sonos_volume      \* sonos.volume, the volume of the device

vars == << dbdir, dbpath, connection, tables, rows, committed, remote,
           transport, index_pc, data_type, total, count, probed,
           cached_searches, inserted, call, outcome, returned, sonos_calls,
           store_queries, history, sonos_volume >>

fsVars    == << dbdir, dbpath, connection >>
storeVars == << tables, rows, committed >>
genVars   == << index_pc, data_type, total, count, probed, history,
               sonos_volume >>
cacheVars == << cached_searches, inserted >>
lastVars  == << call, outcome, returned, sonos_calls, store_queries >>

-----------------------------------------------------------------------------
(* Bounds of the model *)

\* the largest number of items of the device's library, all item-types together
MaxItems == 2
\* the largest number of items of the library whose index runs are remembered
MaxReindex == 2
\* the number of items of each item-type of the library that is searched
MaxUniform == 2
\* the most cache insertions the search-focused specification follows
MaxInsertions == 12

-----------------------------------------------------------------------------
(* Program constants *)

\* self.cache_length
cache_length == 10
\* max_items of the page request of _index_single_type
max_items == 1000
\* The item-types in the order of the create statements.
create_order == << "tracks", "albums", "artists", "playlists" >>

\* self.data_types
data_types == << "playlists", "artists", "albums", "tracks" >>

DataTypes == { data_types[i] : i \in 1..Len(data_types) }

Min(a, b) == IF a < b THEN a ELSE b

\* The create statements of index, in the order they are executed.
create_statements ==
    << [name |-> "tracks",
        columns |-> << <<"title">>, <<"album">>, <<"artist">>, <<"content">> >>],
       [name |-> "albums",
        columns |-> << <<"title">>, <<"artist">>, <<"content">> >>],
       [name |-> "artists",
        columns |-> << <<"title">>, <<"content">> >>],
       [name |-> "playlists",
        columns |-> << <<"title">>, <<"content">> >>] >>

\* _get_columns: PRAGMA table_info of a table of the given set; nothing for a
\* table that does not exist.
ColumnsIn(tbls, table) ==
    IF table \in tbls
    THEN LET i == CHOOSE j \in 1..Len(create_statements) :
                      create_statements[j].name = table
         IN  create_statements[i].columns
    ELSE << >>

_get_columns(table) == ColumnsIn(tables, table)

\* fields[:-1]
ButLast(s) == IF Len(s) = 0 THEN << >> ELSE SubSeq(s, 1, Len(s) - 1)

Range(s) == { s[i] : i \in 1..Len(s) }

-----------------------------------------------------------------------------
(* The device's music library.  Item i of an item-type is the same item    *)
(* whenever the library holds at least i items of that type.               *)

ItemTitles == << <<"a">>, <<"a", "b">>, <<"b", "a">>, <<"b">> >>

ItemOf(t, i) ==
    [ title   |-> ItemTitles[((i - 1) % Len(ItemTitles)) + 1],
      album   |-> IF i % 2 = 1 THEN <<"a">> ELSE <<"b">>,
      creator |-> IF i <= 2 THEN <<"b">> ELSE <<"a">>,
      kind    |-> t ]

\* get_music_library_information(data_type, start, max_items) when the device
\* hands out n items: the items start+1 .. start+n of the library.
ItemList(t, start, n) == [ i \in 1..n |-> ItemOf(t, start + i) ]

\* json.dumps(item.to_dict) and json.loads
Dumps(item) == [ json |-> item ]
Loads(text) == text.json

\* getattr(item, field)
GetAttr(item, field) ==
    CASE field = <<"title">>   -> item.title
      [] field = <<"album">>   -> item.album
      [] field = <<"creator">> -> item.creator

\* Lines 114-117: the columns of the table with artist renamed to creator.
RemoteFields(fields) ==
    [ i \in 1..Len(fields) |->
        IF fields[i] = <<"artist">> THEN <<"creator">> ELSE fields[i] ]

\* Lines 135-137: the row of one item.
RowOf(item, fields) ==
    [ i \in 1..Len(fields) |->
        IF i < Len(fields) THEN GetAttr(item, fields[i]) ELSE Dumps(item) ]

\* InsertPage with the last item of every page left out.
InsertPageButLast(table_rows, items, fields) ==
    table_rows \o [ i \in 1..(Len(items) - 1) |-> RowOf(items[i], fields) ]

\* A page that takes the place of the rows before it.
InsertPageOnly(table_rows, items, fields) ==
    [ i \in 1..Len(items) |-> RowOf(items[i], fields) ]

\* Lines 132-138: one INSERT per item of the page.
InsertPage(table_rows, items, fields) ==
    table_rows \o [ i \in 1..Len(items) |-> RowOf(items[i], fields) ]

-----------------------------------------------------------------------------
(* The Remote Catalog Service: sonos.get_music_library_information.  The   *)
(* device answers a request with as many items as it will give (line 130), *)
(* at most max and at most what the library holds from start on, or the    *)
(* request fails.                                                          *)

RemoteError == [ error |-> TRUE, item_list |-> << >>, number_returned |-> 0,
                 total_matches |-> 0 ]

get_music_library_information(t, start, max) ==
    { RemoteError } \cup
    { [ error |-> FALSE, item_list |-> ItemList(t, start, n),
        number_returned |-> n, total_matches |-> remote[t] ] :
      n \in 0..Min(max, IF remote[t] > start THEN remote[t] - start ELSE 0) }

-----------------------------------------------------------------------------
(* The sqlite3 statements of index *)

NoRows == [ t \in DataTypes |-> << >> ]
NoProbe == [ t \in DataTypes |-> -1 ]

\* DropTables that stops before the last name of data_types.
RECURSIVE DropTablesButLast(_, _)
DropTablesButLast(tbls, i) ==
    IF i >= Len(data_types) THEN [ ok |-> TRUE, tables |-> tbls ]
    ELSE IF data_types[i] \notin tbls THEN [ ok |-> FALSE, tables |-> tbls ]
    ELSE DropTablesButLast(tbls \ { data_types[i] }, i + 1)

\* Lines 89-91: DROP TABLE for each name of data_types, in order; a DROP of a
\* table that does not exist raises and leaves the earlier drops in place.
RECURSIVE DropTables(_, _)
DropTables(tbls, i) ==
    IF i > Len(data_types) THEN [ ok |-> TRUE, tables |-> tbls ]
    ELSE IF data_types[i] \notin tbls THEN [ ok |-> FALSE, tables |-> tbls ]
    ELSE DropTables(tbls \ { data_types[i] }, i + 1)

\* Lines 103-104: the create statements, in order; a CREATE of a table that
\* exists raises and leaves the earlier creates in place.
RECURSIVE CreateTables(_, _)
CreateTables(tbls, i) ==
    IF i > Len(create_statements) THEN [ ok |-> TRUE, tables |-> tbls ]
    ELSE IF create_statements[i].name \in tbls
         THEN [ ok |-> FALSE, tables |-> tbls ]
    ELSE CreateTables(tbls \cup { create_statements[i].name }, i + 1)

\* Rows that outlive their table.
RowsKept(tbls, rws) == rws

\* The rows of the tables that are left.
RowsOf(tbls, rws) == [ t \in DataTypes |-> IF t \in tbls THEN rws[t] ELSE << >> ]

Store(tbls, rws, cmt) ==
    /\ tables' = tbls
    /\ rows' = rws
    /\ committed' = cmt

\* self.connection.commit()
Snapshot(tbls, rws) == [ tables |-> tbls, rows |-> rws ]

-----------------------------------------------------------------------------
(* The index generator (lines 79-146) *)

\* What a specification remembers of the index runs.  Where tracked, previous
\* is the run before the one that runs or ran last: how it ended, whether it
\* left rows in the store and, if it ran to its end, the total_matches it was
\* given and the rows it left.  Where ticking, tick is the parity of the
\* number of times a generator was run to its next yield.
NoRun == [ outcome |-> "none", left |-> FALSE, probed |-> NoProbe, rows |-> NoRows ]
Untracked == [ tracked |-> FALSE, ticking |-> FALSE, previous |-> NoRun, tick |-> 0 ]
Tracked == [ Untracked EXCEPT !.tracked = TRUE ]
Ticking == [ Untracked EXCEPT !.ticking = TRUE ]

\* The generator is run to its next yield or to its end.  It is a new one when
\* none is suspended.
Track ==
    [ history EXCEPT
        !.previous = IF history.tracked /\ index_pc = "idle" /\ call.op = "index"
                     THEN [ outcome |-> outcome,
                            left |-> \E t \in DataTypes : rows[t] # << >>,
                            probed |-> IF outcome = "done" THEN probed ELSE NoProbe,
                            rows |-> IF outcome = "done" THEN rows ELSE NoRows ]
                     ELSE @,
        !.tick = IF history.ticking THEN 1 - @ ELSE @ ]

Gen(pc, dt, tot, cnt, prb, out, ret) ==
    /\ index_pc' = pc
    /\ data_type' = dt
    /\ total' = tot
    /\ count' = cnt
    /\ probed' = prb
    /\ outcome' = out
    /\ returned' = ret
    /\ history' = Track
    /\ sonos_volume' = sonos_volume

\* The generator stops at a yield.
Yield(pc, prb, ret) == Gen(pc, data_type, total, count, prb, "running", ret)

\* An exception leaves the generator; nothing is rolled back.
Raise(error, prb) == Gen("idle", 0, 0, 0, prb, error, returned)

\* Lines 112-127: the start of _index_single_type for data_types[i], up to
\* its first yield: the probe request.  tbls are the tables at this point.
StartType(i, prb) ==
    \E r \in get_music_library_information(data_types[i], 0, 1) :
        IF r.error
        THEN Raise("RemoteError", prb)
        ELSE Gen("adding", i, r.total_matches, 0,
                 [ prb EXCEPT ![data_types[i]] = r.total_matches ], "running",
                 [ msg |-> "Adding", data_type |-> data_types[i] ])

\* Lines 129-146 and the loop of lines 108-110, resumed with the running
\* count cnt: the next page, or the next item-type, or the end.
IndexLoop(cnt) ==
    LET t == data_types[data_type] IN
    IF cnt < total
    THEN \E r \in get_music_library_information(t, cnt, max_items) :
            IF r.error
            THEN /\ UNCHANGED storeVars
                 /\ Raise("RemoteError", probed)
            ELSE \E rws \in { [ rows EXCEPT ![t] =
                                    InsertPage(@, r.item_list,
                                               RemoteFields(_get_columns(t))) ] },
                    c \in { cnt + r.number_returned } :
                     /\ Store(tables, rws, Snapshot(tables, rws))
                     /\ Gen("progress", data_type, total, c, probed, "running",
                            [ msg |-> "progress", percent |-> (c * 100) \div total,
                              count |-> c, total |-> total ])
    ELSE IF data_type < Len(data_types)
    THEN /\ UNCHANGED storeVars
         /\ StartType(data_type + 1, probed)
    ELSE /\ UNCHANGED storeVars
         /\ Gen("idle", 0, 0, 0, probed, "done", returned)

\* Lines 84-95: count the tables; with four of them stop at 'Deleting
\* tables', otherwise commit and stop at 'Creating tables'.
\* index going on to the create statements whatever tables the store holds.
DropPhaseSkipping(prb) ==
    /\ UNCHANGED storeVars
    /\ Yield("creating", prb, [ msg |-> "Creating tables" ])

DropPhase(prb) ==
    IF Cardinality(tables) = 4
    THEN /\ UNCHANGED storeVars
         /\ Yield("deleting", prb, [ msg |-> "Deleting tables" ])
    ELSE /\ Store(tables, rows, Snapshot(tables, rows))
         /\ Yield("creating", prb, [ msg |-> "Creating tables" ])

\* Lines 76-77
Connect ==
    /\ connection' = TRUE
    /\ dbpath' = TRUE
    /\ dbdir' = dbdir

\* Lines 72-77 and on
PathPhase(prb) ==
    IF ~dbpath
    THEN /\ UNCHANGED << fsVars, storeVars >>
         /\ Yield("created_db", prb, [ msg |-> "Created Sqlite3 database" ])
    ELSE /\ Connect
         /\ DropPhase(prb)

NewCall(op, dt, args) ==
    /\ call' = [ op |-> op, data_type |-> dt, args |-> args ]
    /\ sonos_calls' = << >>
    /\ store_queries' = 0

\* An index that empties the cache when it is called.
IndexInvalidating ==
    /\ cached_searches' = << >>
    /\ inserted' = inserted
    /\ UNCHANGED << remote, transport >>

\* What a call of index leaves alone: index (lines 79-110) has no statement
\* on cached_searches, nor on the device's library or transport.
IndexLeaves == UNCHANGED << remote, transport, cacheVars >>

\* index is called and run to its first yield.
IndexBegin ==
    /\ index_pc = "idle"
    /\ NewCall("index", "", << >>)
    /\ IF connection
       THEN /\ DropPhase(NoProbe)
            /\ UNCHANGED fsVars
       ELSE IF ~dbdir
       THEN /\ dbdir' = TRUE
            /\ UNCHANGED << dbpath, connection, storeVars >>
            /\ Yield("created_folder", NoProbe, [ msg |-> "Created folder" ])
       ELSE PathPhase(NoProbe)
    /\ IndexLeaves

\* Resumed after 'Created folder'.
IndexAfterCreatedFolder ==
    /\ index_pc = "created_folder"
    /\ PathPhase(probed)
    /\ UNCHANGED << remote, transport, cacheVars, call, sonos_calls, store_queries >>

\* Resumed after 'Created Sqlite3 database ...'.
IndexAfterCreatedDb ==
    /\ index_pc = "created_db"
    /\ Connect
    /\ DropPhase(probed)
    /\ UNCHANGED << remote, transport, cacheVars, call, sonos_calls, store_queries >>

\* Resumed after 'Deleting tables': lines 89-95.
IndexAfterDeleting ==
    /\ index_pc = "deleting"
    /\ \E d \in { DropTables(tables, 1) } :
       \E rws \in { RowsOf(d.tables, rows) } :
           IF d.ok
           THEN /\ Store(d.tables, rws, Snapshot(d.tables, rws))
                /\ Yield("creating", probed, [ msg |-> "Creating tables" ])
           ELSE /\ Store(d.tables, rws, committed)
                /\ Raise("StoreError", probed)
    /\ UNCHANGED << fsVars, remote, transport, cacheVars, call, sonos_calls,
                    store_queries >>

\* Resumed after 'Creating tables': lines 96-110 up to 'Adding: playlists'.
IndexAfterCreating ==
    /\ index_pc = "creating"
    /\ \E c \in { CreateTables(tables, 1) } :
           IF c.ok
           THEN /\ Store(c.tables, rows, Snapshot(c.tables, rows))
                /\ StartType(1, probed)
           ELSE /\ Store(c.tables, rows, committed)
                /\ Raise("StoreError", probed)
    /\ UNCHANGED << fsVars, remote, transport, cacheVars, call, sonos_calls,
                    store_queries >>

\* Resumed after 'Adding: <data_type>': line 128 and on.
IndexAfterAdding ==
    /\ index_pc = "adding"
    /\ IndexLoop(0)
    /\ UNCHANGED << fsVars, remote, transport, cacheVars, call, sonos_calls,
                    store_queries >>

\* Resumed after a progress line: line 129 and on.
IndexAfterProgress ==
    /\ index_pc = "progress"
    /\ IndexLoop(count)
    /\ UNCHANGED << fsVars, remote, transport, cacheVars, call, sonos_calls,
                    store_queries >>

\* The caller stops consuming the progress sequence (process_cmd is
\* interrupted): the generator is dropped where it stands.
IndexAbandon ==
    /\ index_pc # "idle"
    /\ UNCHANGED << fsVars, storeVars, remote, transport, cacheVars, call,
                    sonos_calls, store_queries >>
    /\ Gen("idle", 0, 0, 0, probed, "abandoned", returned)

-----------------------------------------------------------------------------
(* Text *)

\* search_string.count('=')
RECURSIVE CountEquals(_)
CountEquals(s) ==
    IF s = << >> THEN 0
    ELSE (IF Head(s) = "=" THEN 1 ELSE 0) + CountEquals(Tail(s))

\* The position of the first '=' of s.
EqualsAt(s) == CHOOSE i \in 1..Len(s) : s[i] = "=" /\ \A j \in 1..(i - 1) : s[j] # "="

\* The wild card after the search text only.
PadRight(search) == search \o << "%" >>

\* search.join(['%', '%'])
Pad(search) == << "%" >> \o search \o << "%" >>

\* value LIKE pattern of sqlite3: '%' stands for any text, '_' for any one
\* character, anything else for itself.
RECURSIVE Like(_, _)
Like(pattern, value) ==
    IF pattern = << >> THEN value = << >>
    ELSE IF Head(pattern) = "%"
    THEN \/ Like(Tail(pattern), value)
         \/ value # << >> /\ Like(pattern, Tail(value))
    ELSE /\ value # << >>
         /\ Head(pattern) = "_" \/ Head(pattern) = Head(value)
         /\ Like(Tail(pattern), Tail(value))

Digits == << "0", "1", "2", "3", "4", "5", "6", "7", "8", "9" >>

IsDigit(c) == \E d \in 1..Len(Digits) : Digits[d] = c

DigitValue(c) == (CHOOSE d \in 1..Len(Digits) : Digits[d] = c) - 1

RECURSIVE DigitsValue(_, _)
DigitsValue(s, acc) ==
    IF s = << >> THEN acc ELSE DigitsValue(Tail(s), 10 * acc + DigitValue(Head(s)))

\* int(number): an optional sign and one or more digits, or ValueError.
ParseInt(s) ==
    LET signed == s # << >> /\ Head(s) \in { "-", "+" }
        digits == IF signed THEN Tail(s) ELSE s
    IN  IF digits # << >> /\ \A i \in 1..Len(digits) : IsDigit(digits[i])
        THEN [ ok |-> TRUE,
               value |-> IF signed /\ Head(s) = "-"
                         THEN 0 - DigitsValue(digits, 0)
                         ELSE DigitsValue(digits, 0) ]
        ELSE [ ok |-> FALSE, value |-> 0 ]

-----------------------------------------------------------------------------
(* _search (lines 258-291) *)

\* Lines 261-269: the search term is [field=]text.
ParseTerm(search_string) ==
    IF CountEquals(search_string) = 0
    THEN [ ok |-> TRUE, field |-> << "title" >>, search |-> search_string ]
    ELSE IF CountEquals(search_string) = 1
    THEN LET i == EqualsAt(search_string)
         IN  [ ok |-> TRUE,
               field |-> SubSeq(search_string, 1, i - 1),
               search |-> SubSeq(search_string, i + 1, Len(search_string)) ]
    ELSE [ ok |-> FALSE, field |-> << >>, search |-> << >> ]

\* A lookup that finds no key.
CacheMiss(cache, key) == 0

\* A lookup by field and pattern alone, whatever the item-type of the key.
CachedAtAnyType(cache, key) ==
    IF \E i \in 1..Len(cache) : cache[i].key[2] = key[2] /\ cache[i].key[3] = key[3]
    THEN CHOOSE i \in 1..Len(cache) : cache[i].key[2] = key[2] /\ cache[i].key[3] = key[3]
    ELSE 0

\* The position of a key in cached_searches, 0 when it is not there.
CachedAt(cache, key) ==
    IF \E i \in 1..Len(cache) : cache[i].key = key
    THEN CHOOSE i \in 1..Len(cache) : cache[i].key = key
    ELSE 0

CachedKeys(cache) == { cache[i].key : i \in 1..Len(cache) }

\* Evict with popitem(), which removes the newest entry.
RECURSIVE EvictNewest(_)
EvictNewest(cache) ==
    IF Len(cache) > cache_length
    THEN EvictNewest(SubSeq(cache, 1, Len(cache) - 1))
    ELSE cache

\* Lines 285-286: popitem(last=False) while the cache is too long.
RECURSIVE Evict(_)
Evict(cache) == IF Len(cache) > cache_length THEN Evict(Tail(cache)) ELSE cache

\* Line 284: cached_searches[key] = results, a new key goes last.
CachePut(cache, key, results) ==
    Evict(Append(cache, [ key |-> key, results |-> results ]))

\* Lines 279-282: SELECT * FROM data_type WHERE field LIKE ?
SelectLike(dt, field, pattern) ==
    LET columns == _get_columns(dt)
        c == CHOOSE i \in 1..Len(columns) : columns[i] = field
    IN  SelectSeq(rows[dt], LAMBDA row : Like(pattern, row[c]))

\* The fields without the last two columns.
SearchFieldsShort(dt) == ButLast(ButLast(_get_columns(dt)))

\* The fields _search accepts: _get_columns(data_type)[:-1]
SearchFields(dt) == ButLast(_get_columns(dt))

NoSearch == [ error |-> "none", results |-> << >>, cache |-> cached_searches,
              inserted |-> inserted, queries |-> 0, hit |-> FALSE,
              info |-> [ msg |-> "" ] ]

_search(dt, search_string) ==
    LET term == ParseTerm(search_string)
        key == << dt, term.field, Pad(term.search) >>
        at == CachedAt(cached_searches, key)
    IN  IF ~term.ok
        THEN [ NoSearch EXCEPT !.error = "MalformedQuery",
                 !.info = [ msg |-> "= signs are not allowed in the search string" ] ]
        ELSE IF at # 0
        THEN [ NoSearch EXCEPT !.results = cached_searches[at].results,
                               !.hit = TRUE ]
        ELSE IF term.field \in Range(SearchFields(dt))
        THEN LET results == SelectLike(dt, term.field, key[3])
             IN  [ NoSearch EXCEPT !.results = results,
                     !.cache = CachePut(cached_searches, key, results),
                     !.inserted = Append(inserted, key),
                     !.queries = 1 ]
        ELSE [ NoSearch EXCEPT !.error = "UnknownField",
                 !.info = [ msg |-> "The search field is unknown",
                            field |-> term.field,
                            allowed |-> SearchFields(dt) ] ]

-----------------------------------------------------------------------------
(* _play (lines 293-336) and the device it drives *)

TransportStates == { "PLAYING", "PAUSED_PLAYBACK", "STOPPED" }

NoItem == [ title |-> << >>, album |-> << >>, creator |-> << >>, kind |-> "" ]

DeviceCall(op, item, state, ok) ==
    [ op |-> op, item |-> item, state |-> state, ok |-> ok ]

\* ml_classes[data_type].from_dict(item_dict)
FromDict(dt, item_dict) == [ item_dict EXCEPT !.kind = dt ]

\* Clear the queue for every action.
ClearAlways(action) == TRUE

\* Line 326: the queue is cleared for a replace.
ShouldClear(action) == action = << "replace" >>

\* Resume playback after every replace, whatever the device was doing.
ResumeAlways(action, player_state) == action = << "replace" >>

\* Line 330: playback is resumed after a replace when the device was playing.
ShouldResume(action, player_state) ==
    action = << "replace" >> /\ player_state = "PLAYING"

\* Device calls that read the transport state once the queue was cleared.
DeviceCallsLateRead(action, item, fault, cleared) ==
    LET player_state == IF ShouldClear(action) THEN cleared ELSE transport
        c_state == DeviceCall("get_current_transport_info", NoItem, player_state, TRUE)
        c_clear == DeviceCall("clear_queue", NoItem, "", TRUE)
        c_add == DeviceCall("add_to_queue", item, "", TRUE)
        c_play == DeviceCall("play", NoItem, "", TRUE)
    IN  [ ok |-> TRUE,
          calls |-> (IF ShouldClear(action) THEN << c_clear >> ELSE << >>)
                    \o << c_state, c_add >>
                    \o (IF ShouldResume(action, player_state) THEN << c_play >>
                        ELSE << >>),
          transport |-> IF ShouldResume(action, player_state) THEN "PLAYING"
                        ELSE player_state ]

\* Device calls that carry on after one of them failed.
DeviceCallsMasking(action, item, fault, cleared) ==
    LET c_state == DeviceCall("get_current_transport_info", NoItem, transport,
                              fault # "get_current_transport_info")
        c_clear == DeviceCall("clear_queue", NoItem, "", fault # "clear_queue")
        c_add == DeviceCall("add_to_queue", item, "", fault # "add_to_queue")
        c_play == DeviceCall("play", NoItem, "", fault # "play")
    IN  [ ok |-> TRUE,
          calls |-> << c_state >>
                    \o (IF ShouldClear(action) THEN << c_clear >> ELSE << >>)
                    \o << c_add >>
                    \o (IF ShouldResume(action, transport) THEN << c_play >> ELSE << >>),
          transport |-> IF ShouldResume(action, transport) THEN "PLAYING"
                        ELSE IF ShouldClear(action) THEN cleared ELSE transport ]

\* The device calls of lines 323-331 for one item.  fault names the device
\* call that fails ("" for none); cleared is the transport state the device
\* reports once its queue was cleared.
DeviceCalls(action, item, fault, cleared) ==
    LET player_state == transport
        c_state == DeviceCall("get_current_transport_info", NoItem, player_state,
                              fault # "get_current_transport_info")
        c_clear == DeviceCall("clear_queue", NoItem, "", fault # "clear_queue")
        c_add == DeviceCall("add_to_queue", item, "", fault # "add_to_queue")
        c_play == DeviceCall("play", NoItem, "", fault # "play")
        after_clear == IF ShouldClear(action) THEN cleared ELSE transport
    IN  IF ~c_state.ok
        THEN [ ok |-> FALSE, calls |-> << c_state >>, transport |-> transport ]
        ELSE IF ShouldClear(action) /\ ~c_clear.ok
        THEN [ ok |-> FALSE, calls |-> << c_state, c_clear >>,
               transport |-> transport ]
        ELSE LET calls1 == IF ShouldClear(action)
                           THEN << c_state, c_clear >> ELSE << c_state >>
             IN  IF ~c_add.ok
                 THEN [ ok |-> FALSE, calls |-> Append(calls1, c_add),
                        transport |-> after_clear ]
                 ELSE IF ShouldResume(action, player_state)
                 THEN IF ~c_play.ok
                      THEN [ ok |-> FALSE,
                             calls |-> calls1 \o << c_add, c_play >>,
                             transport |-> after_clear ]
                      ELSE [ ok |-> TRUE,
                             calls |-> calls1 \o << c_add, c_play >>,
                             transport |-> "PLAYING" ]
                 ELSE [ ok |-> TRUE, calls |-> Append(calls1, c_add),
                        transport |-> after_clear ]

\* A range check that takes the number itself for the index.
InRangeOneBased(n, results) == n \in 1..(Len(results) - 1)

\* Line 307: number in range(len(results)), number being int(number) - 1.
InRange(n, results) == n \in 0..(Len(results) - 1)

\* A validation that parses the number before it looks at the action.
PlayErrorNumberFirst(action, number, results) ==
    IF ~number.ok THEN "InvalidNumber"
    ELSE IF action \notin { << "add" >>, << "replace" >> } THEN "InvalidAction"
    ELSE IF ~InRange(number.value - 1, results) THEN "NumberOutOfRange"
    ELSE "none"

\* Lines 296-315: the action is checked, then the number parsed, then its
\* range checked; number is the result of int(number).
PlayError(action, number, results) ==
    IF action \notin { << "add" >>, << "replace" >> } THEN "InvalidAction"
    ELSE IF ~number.ok THEN "InvalidNumber"
    ELSE IF ~InRange(number.value - 1, results) THEN "NumberOutOfRange"
    ELSE "none"

\* _play with the transport state read before its arguments are checked.
NoPlayStateRead ==
    [ error |-> "none",
      calls |-> << DeviceCall("get_current_transport_info", NoItem, transport, TRUE) >>,
      transport |-> transport, info |-> [ msg |-> "" ] ]

NoPlay == [ error |-> "none", calls |-> << >>, transport |-> transport,
            info |-> [ msg |-> "" ] ]

_play(dt, results, args, fault, cleared) ==
    LET action == args[2]
        number == ParseInt(args[3])
        n == number.value - 1
        error == PlayError(action, number, results)
    IN  IF error = "InvalidAction"
        THEN [ NoPlay EXCEPT !.error = "InvalidAction",
                 !.info = [ msg |-> "Action must be 'add' or 'replace'" ] ]
        ELSE IF error = "InvalidNumber"
        THEN [ NoPlay EXCEPT !.error = "InvalidNumber",
                 !.info = [ msg |-> "Play number must be parseable as integer" ] ]
        ELSE IF error = "NumberOutOfRange"
        THEN [ NoPlay EXCEPT !.error = "NumberOutOfRange",
                 !.info =
                    IF Len(results) = 0
                    THEN [ msg |-> "No results to play from" ]
                    ELSE IF Len(results) = 1
                    THEN [ msg |-> "Play number can only be 1" ]
                    ELSE [ msg |-> "Play number has to be in the range from 1 to",
                           upper |-> Len(results) ] ]
        ELSE LET row == results[n + 1]
                 item == FromDict(dt, Loads(row[Len(row)]))
                 dev == DeviceCalls(action, item, fault, cleared)
             IN  IF ~dev.ok
                 THEN [ NoPlay EXCEPT !.error = "RemoteError",
                          !.calls = dev.calls, !.transport = dev.transport ]
                 ELSE [ NoPlay EXCEPT !.calls = dev.calls,
                          !.transport = dev.transport,
                          !.info = [ msg |-> IF action = << "replace" >>
                                             THEN "Queue replaced with"
                                             ELSE "Added to queue",
                                     title |-> item.title ] ]

\* _print_results (lines 338-356): one numbered line per result, made from
\* the content of the row.
_print_results(dt, results) ==
    [ i \in 1..Len(results) |->
        LET item_dict == Loads(results[i][Len(results[i])])
        IN  [ number |-> i,
              text |-> CASE dt = "tracks" ->
                              << item_dict.title, item_dict.album, item_dict.creator >>
                         [] dt = "albums" ->
                              << item_dict.title, item_dict.creator >>
                         [] OTHER -> << item_dict.title >> ] ]

-----------------------------------------------------------------------------
(* _search_and_play (lines 223-256), consumed to its end *)

\* The checks of lines 229-240 without the one for the index.
PrecheckNoIndex(tbls, args) ==
    IF Len(args) < 1 THEN "MissingSearchTerm" ELSE "none"

\* The checks of lines 229-240 with the one for the search term first.
PrecheckTermFirst(tbls, args) ==
    IF Len(args) < 1 THEN "MissingSearchTerm"
    ELSE IF Cardinality(tbls) # 4 THEN "NotIndexed"
    ELSE "none"

\* Lines 229-240: the library must be indexed, and a search term given.
Precheck(tbls, args) ==
    IF Cardinality(tbls) # 4 THEN "NotIndexed"
    ELSE IF Len(args) < 1 THEN "MissingSearchTerm"
    ELSE "none"

Ended(out, ret, s, calls, state) ==
    /\ outcome' = out
    /\ returned' = ret
    /\ cached_searches' = s.cache
    /\ inserted' = s.inserted
    /\ store_queries' = s.queries
    /\ sonos_calls' = calls
    /\ transport' = state

_search_and_play(dt, args, fault, cleared) ==
    /\ index_pc = "idle"
    /\ call' = [ op |-> "search", data_type |-> dt, args |-> args ]
    \* _open_db, lines 65-77
    /\ dbdir' = TRUE
    /\ dbpath' = TRUE
    /\ connection' = TRUE
    /\ IF Precheck(tables, args) # "none"
       THEN Ended(Precheck(tables, args), [ msg |-> Precheck(tables, args) ],
                  NoSearch, << >>, transport)
       ELSE \E s \in { _search(dt, args[1]) } :
                IF s.error # "none"
                THEN Ended(s.error, s.info, s, << >>, transport)
                ELSE IF Len(args) = 1
                THEN Ended("results",
                           [ msg |-> "results", lines |-> _print_results(dt, s.results),
                             results |-> s.results ],
                           s, << >>, transport)
                ELSE IF Len(args) = 3
                THEN \E p \in { _play(dt, s.results, args, fault, cleared) } :
                         Ended(IF p.error = "none" THEN "played" ELSE p.error,
                               p.info, s, p.calls, p.transport)
                ELSE Ended("IncorrectSyntax", [ msg |-> "Incorrect play syntax" ],
                           s, << >>, transport)
    /\ UNCHANGED << storeVars, remote, genVars >>

-----------------------------------------------------------------------------
(* The transport commands of the shell and the library of the device *)

\* play (lines 635-642) without an index, and the commands pause and stop
\* (lines 711-712): the device takes the state asked for.
TransportCommand(state) ==
    /\ index_pc = "idle"
    /\ transport # state
    /\ transport' = state
    /\ UNCHANGED << fsVars, storeVars, remote, genVars, cacheVars, lastVars >>

\* The library of the device gains or loses items of one item-type while no
\* index runs.
LibraryChange(t, n) ==
    /\ index_pc = "idle"
    /\ remote[t] # n
    /\ remote' = [ remote EXCEPT ![t] = n ]
    /\ UNCHANGED << fsVars, storeVars, transport, genVars, cacheVars, lastVars >>

-----------------------------------------------------------------------------
(* Inputs *)

-----------------------------------------------------------------------------
(* volume (lines 621-627), adjust_volume (lines 507-526) and
   get_volume_adjustment_factor (lines 529-538) *)

\* The highest volume, line 514.
MaxVolume == 100

\* Lines 529-538: 1 for a bare operator, else int(operator[1:]), None when
\* that is no integer.
get_volume_adjustment_factor(operator) ==
    IF Len(operator) > 1
    THEN LET factor == ParseInt(Tail(operator))
         IN  IF factor.ok THEN [ none |-> FALSE, value |-> factor.value ]
             ELSE [ none |-> TRUE, value |-> 0 ]
    ELSE [ none |-> FALSE, value |-> 1 ]

\* Lines 507-526: the values adjust_volume assigns to sonos.volume, in order.
adjust_volume(vol, operator) ==
    LET factor == get_volume_adjustment_factor(operator)
    IN  IF factor.none \/ factor.value = 0 THEN << >>
        ELSE IF operator[1] = "+"
        THEN << vol + (IF vol + factor.value > MaxVolume THEN 1 ELSE factor.value) >>
        ELSE IF operator[1] = "-"
        THEN << vol - (IF vol - factor.value < 0 THEN 1 ELSE factor.value) >>
        ELSE << >>

\* The volume of a device after sonos.volume = value: the value when the
\* device has such a volume; else the device limits it or keeps its volume.
VolumeAfter(vol, value) ==
    IF value \in 0..MaxVolume THEN { value }
    ELSE { vol, IF value < 0 THEN 0 ELSE MaxVolume }

\* volume (lines 621-627): adjust the volume when an operator is given, and
\* return the volume of the device.
volume(args) ==
    /\ index_pc = "idle"
    /\ call' = [ op |-> "volume", data_type |-> "", args |-> args ]
    /\ \E assigned \in { IF args = << >> THEN << >>
                         ELSE adjust_volume(sonos_volume, args[1]) } :
          /\ sonos_calls' = [ i \in 1..Len(assigned) |->
                                [ op |-> "volume", value |-> assigned[i] ] ]
          /\ sonos_volume' \in IF assigned = << >> THEN { sonos_volume }
                                ELSE VolumeAfter(sonos_volume, assigned[1])
    /\ outcome' = "done"
    /\ returned' = [ msg |-> "volume", volume |-> sonos_volume' ]
    /\ store_queries' = 0
    /\ UNCHANGED << fsVars, storeVars, remote, transport, index_pc, data_type,
                    total, count, probed, history, cacheVars >>

\* The number of items of a library.
Size(catalog) ==
    catalog["playlists"] + catalog["artists"] + catalog["albums"] + catalog["tracks"]

\* Every library of at most MaxItems items.
Catalogs == { c \in [ DataTypes -> 0..MaxItems ] : Size(c) <= MaxItems }

\* Every library of at most MaxReindex items.
ReindexCatalogs == { c \in [ DataTypes -> 0..MaxReindex ] : Size(c) <= MaxReindex }

\* The library with MaxUniform items of every item-type.
UniformCatalog == [ t \in DataTypes |-> MaxUniform ]

\* A library with no playlist, one artist, two albums and three tracks.
PlayCatalog == [ t \in DataTypes |-> (CHOOSE i \in 1..4 : data_types[i] = t) - 1 ]

\* Search terms no item-type accepts: a field that is no column, the content
\* column, an empty field, and more than one '='.
BadSearchStrings ==
    { << "bogus", "=", "a" >>, << "content", "=", "a" >>, << "=", "a" >>,
      << "a", "=", "b", "=", "c" >> }

\* The search commands of the search-focused specification, in the order in
\* which it issues them for the first time.  Those that name a field the
\* item-type does not have never enter the cache.
KeyOrder ==
    << << "tracks", << "a" >> >>, << "tracks", << "album", "=", "a" >> >>,
       << "tracks", << "artist", "=", "a" >> >>, << "albums", << "a" >> >>,
       << "albums", << "artist", "=", "a" >> >>, << "artists", << "a" >> >>,
       << "playlists", << "a" >> >>,
       << "tracks", << "title", "=", "b" >> >>, << "tracks", << "album", "=", "b" >> >>,
       << "tracks", << "artist", "=", "b" >> >>, << "albums", << "b" >> >>,
       << "albums", << "artist", "=", "b" >> >>, << "artists", << "title", "=", "b" >> >>,
       << "playlists", << "b" >> >> >>

\* Search terms with a field of another item-type.
OtherFieldCommands ==
    { << "albums", << "album", "=", "a" >> >>, << "artists", << "artist", "=", "a" >> >>,
      << "playlists", << "album", "=", "a" >> >> }

\* The play commands of the play-focused specification, in the order in
\* which it issues them for the first time.
PlayOrder == << "tracks", "albums", "artists", "playlists" >>

Actions == { << "add" >>, << "replace" >>, << "remove" >> }

Numbers ==
    { << "0" >>, << "1" >>, << "2" >>, << "3" >>, << "4" >>, << "-", "1" >>,
      << "x" >> }

\* The arguments of the volume command: none, a bare operator, an operator
\* with a factor, with a factor that is no integer, with the factor 0, and
\* a factor without an operator.
VolumeArgs ==
    { << >>, << << "+" >> >>, << << "-" >> >>,
      << << "+", "1" >> >>, << << "-", "1" >> >>,
      << << "+", "5" >> >>, << << "-", "5" >> >>,
      << << "+", "1", "0", "0" >> >>, << << "-", "1", "0", "0" >> >>,
      << << "+", "x" >> >>, << << "+", "0" >> >>, << << "5" >> >> }

\* The device call that fails during a play command, "" for none.
Faults == { "", "get_current_transport_info", "clear_queue", "add_to_queue", "play" }

\* The cache key of a search command.
KeyOf(dt, search_string) ==
    << dt, ParseTerm(search_string).field, Pad(ParseTerm(search_string).search) >>

-----------------------------------------------------------------------------
(* Specifications *)

InitDevice(catalogs, states, h, volumes) ==
    /\ history = h
    /\ sonos_volume \in volumes
    /\ dbdir \in BOOLEAN
    /\ dbpath \in BOOLEAN
    /\ dbpath => dbdir
    /\ connection = FALSE
    /\ tables = { }
    /\ rows = NoRows
    /\ committed = Snapshot({ }, NoRows)
    /\ remote \in catalogs
    /\ transport \in states
    /\ index_pc = "idle"
    /\ data_type = 0
    /\ total = 0
    /\ count = 0
    /\ probed = NoProbe
    /\ cached_searches = << >>
    /\ inserted = << >>
    /\ call = [ op |-> "none", data_type |-> "", args |-> << >> ]
    /\ outcome = "none"
    /\ returned = [ msg |-> "" ]
    /\ sonos_calls = << >>
    /\ store_queries = 0

InitTracking(catalogs, states, h) == InitDevice(catalogs, states, h, { 0 })

InitWith(catalogs, states) == InitTracking(catalogs, states, Untracked)

Index ==
    \/ IndexBegin
    \/ IndexAfterCreatedFolder
    \/ IndexAfterCreatedDb
    \/ IndexAfterDeleting
    \/ IndexAfterCreating
    \/ IndexAfterAdding
    \/ IndexAfterProgress
    \/ IndexAbandon

\* Any library, any run of index, the library changing between runs, and
\* the commands for tracks without a search term, with the term a, with a
\* term of two '=', and to replace the queue with the first track found.
Init == InitWith(Catalogs, { "STOPPED" })

Search ==
    \E args \in { << >>, << << "a" >> >>, << << "a", "=", "b", "=", "c" >> >>,
                  << << "a" >>, << "replace" >>, << "1" >> >> } :
        _search_and_play("tracks", args, "", transport)

Library ==
    \E t \in DataTypes, n \in 0..MaxItems :
        /\ LibraryChange(t, n)
        /\ remote' \in Catalogs

Next == Index \/ Search \/ Library

Spec == Init /\ [][Next]_vars

\* One library, indexed before the first search; the search commands of
\* KeyOrder on the completely indexed library, each for the first time only
\* after those before it, for as long as the cache has taken at most
\* MaxInsertions keys; and the search commands that fail.
InitSearch == InitWith({ UniformCatalog }, { "STOPPED" })

IndexFirst == inserted = << >> /\ Index

\* The store holds the whole library.
Mirrored == tables = DataTypes /\ \A t \in DataTypes : Len(rows[t]) = remote[t]

SearchInOrder ==
    \E i \in 1..Len(KeyOrder) :
        /\ Mirrored
        /\ \A j \in 1..(i - 1) : KeyOf(KeyOrder[j][1], KeyOrder[j][2]) \in Range(inserted)
        /\ _search_and_play(KeyOrder[i][1], << KeyOrder[i][2] >>, "", transport)
        /\ Len(inserted') <= MaxInsertions

SearchFailing ==
    \/ \E dt \in DataTypes : _search_and_play(dt, << >>, "", transport)
    \/ \E dt \in DataTypes, s \in BadSearchStrings :
          _search_and_play(dt, << s >>, "", transport)
    \/ \E c \in OtherFieldCommands : _search_and_play(c[1], << c[2] >>, "", transport)

NextSearch == IndexFirst \/ SearchInOrder \/ SearchFailing

SpecSearch == InitSearch /\ [][NextSearch]_vars

\* One library, indexed before the first play command; the play commands on
\* the completely indexed library for the items found by the search term a,
\* for the item-types in the order of PlayOrder, and the transport commands.
InitPlay == InitWith({ PlayCatalog }, TransportStates)

Play ==
    \E i \in 1..Len(PlayOrder), a \in Actions, n \in Numbers :
        \E cleared \in IF a = << "replace" >> THEN { transport, "STOPPED" }
                       ELSE { transport } :
            /\ Mirrored
            /\ \A j \in 1..(i - 1) : KeyOf(PlayOrder[j], << "a" >>) \in Range(inserted)
            /\ _search_and_play(PlayOrder[i], << << "a" >>, a, n >>, "", cleared)

PlayFailing ==
    \E i \in 1..Len(PlayOrder), a \in { << "add" >>, << "replace" >> },
       n \in { << "1" >>, << "2" >> }, fault \in Faults \ { "" } :
        /\ Mirrored
        /\ \A j \in 1..(i - 1) : KeyOf(PlayOrder[j], << "a" >>) \in Range(inserted)
        /\ _search_and_play(PlayOrder[i], << << "a" >>, a, n >>, fault, "STOPPED")

PlaySyntax ==
    \E args \in { << >>, << << "a" >>, << "add" >> >>,
                  << << "a" >>, << "add" >>, << "1" >>, << "1" >> >>,
                  << << "bogus", "=", "a" >>, << "add" >>, << "1" >> >>,
                  << << "a", "=", "b", "=", "c" >>, << "add" >>, << "1" >> >> } :
        _search_and_play("tracks", args, "", transport)

Transport == \E state \in TransportStates : TransportCommand(state)

NextPlay == IndexFirst \/ Play \/ PlayFailing \/ PlaySyntax \/ Transport

SpecPlay == InitPlay /\ [][NextPlay]_vars

\* Any library, any run of index and the library changing between runs,
\* with the outcome of the run before remembered.
InitReindex ==
    InitTracking(ReindexCatalogs, { "STOPPED" }, Tracked)

LibraryReindex ==
    \E t \in DataTypes, n \in 0..MaxReindex :
        /\ LibraryChange(t, n)
        /\ Size(remote') <= MaxReindex

NextReindex == Index \/ LibraryReindex

SpecReindex == InitReindex /\ [][NextReindex]_vars

\* Any library, and a caller that runs every index generator to its end, as
\* process_cmd does, against a device that answers every request.
InitLive == InitTracking(Catalogs, { "STOPPED" }, Ticking)

Consume ==
    /\ \/ IndexAfterCreatedFolder
       \/ IndexAfterCreatedDb
       \/ IndexAfterDeleting
       \/ IndexAfterCreating
       \/ IndexAfterAdding
       \/ IndexAfterProgress
    /\ outcome' # "RemoteError"

NextLive == IndexBegin \/ Consume \/ Library

SpecLive == InitLive /\ [][NextLive]_vars /\ WF_vars(Consume)

\* A device at any volume and the volume command with the arguments of
\* VolumeArgs.
InitVolume == InitDevice({ UniformCatalog }, { "STOPPED" }, Untracked, 0..MaxVolume)

Volume == \E args \in VolumeArgs : volume(args)

NextVolume == Volume

SpecVolume == InitVolume /\ [][NextVolume]_vars

-----------------------------------------------------------------------------
(* Properties *)

\* The last command was an index run that its caller consumed to the end.
IndexCompleted == call.op = "index" /\ outcome = "done"

\* C1: after an index run that is consumed to its end without a remote
\* error, all four tables exist and every item-type's table holds as many
\* rows, committed, as the total_matches of the probe request made at the
\* start of that item-type's ingestion.
C1_RowCountIsProbedTotal ==
    IndexCompleted =>
        /\ tables = DataTypes
        /\ \A t \in DataTypes :
              /\ probed[t] >= 0
              /\ Len(rows[t]) = probed[t]
              /\ Len(committed.rows[t]) = probed[t]

\* C1 witness: a completed run that mirrored two tracks.
C1_Witness == IndexCompleted /\ probed["tracks"] >= 2 /\ Len(rows["tracks"]) >= 2

\* C2: in every state a caller can observe (at every yield of index, after
\* index ended, failed or was abandoned, after every search) the tables are
\* none or exactly the four of data_types.
C2_TablesNoneOrFour ==
    /\ tables = { } \/ tables = DataTypes
    /\ committed.tables = { } \/ committed.tables = DataTypes

\* C2 witness: a searched library whose tables a new index run has dropped,
\* seen at 'Creating tables'.
C2_Witness == index_pc = "creating" /\ tables = { } /\ cached_searches # << >>

\* The last k elements of a sequence.
LastOf(s, k) == SubSeq(s, Len(s) - k + 1, Len(s))

\* C3: the cache holds at most 10 entries and their keys are, oldest first,
\* the keys of the most recent min(n, 10) insertions, n the number of
\* insertions so far; a hit inserts nothing, so it neither changes the cache
\* nor the order of eviction.
C3_CacheIsFifo ==
    /\ Len(cached_searches) <= 10
    /\ Len(cached_searches) = Min(Len(inserted), 10)
    /\ [ i \in 1..Len(cached_searches) |-> cached_searches[i].key ]
          = LastOf(inserted, Len(cached_searches))

\* C3 witness: after twelve insertions, a search served from the cache.
C3_Witness ==
    /\ Len(inserted) = 12
    /\ outcome = "results"
    /\ store_queries = 0
    /\ inserted[2] \notin CachedKeys(cached_searches)

\* A step that is a search command.
SearchStep ==
    /\ call'.op = "search"
    /\ index_pc = "idle"
    /\ UNCHANGED << storeVars, remote, genVars >>
    /\ \E fault \in IF Len(call'.args) = 3 THEN Faults ELSE { "" },
          cleared \in IF Len(call'.args) = 3 THEN TransportStates ELSE { transport } :
           _search_and_play(call'.data_type, call'.args, fault, cleared)

\* The positions of '=' in a search term.
EqualsIn(s) == { i \in 1..Len(s) : s[i] = "=" }

\* The field a search term names: title without '=', else what is before it.
FieldOf(s) ==
    IF EqualsIn(s) = { } THEN << "title" >>
    ELSE LET i == CHOOSE j \in EqualsIn(s) : TRUE IN SubSeq(s, 1, i - 1)

\* The text a search term asks for: all of it without '=', else what is
\* after it.
TextOf(s) ==
    IF EqualsIn(s) = { } THEN s
    ELSE LET i == CHOOSE j \in EqualsIn(s) : TRUE IN SubSeq(s, i + 1, Len(s))

\* The cache key of a search term with at most one '='.
ExpectedKey(dt, s) == << dt, FieldOf(s), << "%" >> \o TextOf(s) \o << "%" >> >>

\* The step searches with a term of at most one '='.
TermStep ==
    /\ SearchStep
    /\ call'.args # << >>
    /\ Cardinality(EqualsIn(call'.args[1])) <= 1

\* The results the cache holds for a key.
Stored(cache, key) == { cache[i].results : i \in { j \in 1..Len(cache) : cache[j].key = key } }

\* C4: a search for a key that is in the cache makes no query to the store,
\* leaves the cache as it is and, on an indexed store, returns the result set
\* the cache holds; a search that misses stores the result set it returns;
\* and no step changes the result set of a key that stays in the cache.  So
\* the second of two searches for a key returns what the first returned,
\* whatever became of the store in between.
C4_ServedFromCache ==
    [][ /\ \A key \in CachedKeys(cached_searches) \cap CachedKeys(cached_searches') :
              Stored(cached_searches', key) = Stored(cached_searches, key)
        /\ TermStep =>
              LET key == ExpectedKey(call'.data_type, call'.args[1])
              IN  IF key \in CachedKeys(cached_searches)
                  THEN /\ store_queries' = 0
                       /\ cached_searches' = cached_searches
                       /\ (tables = DataTypes /\ Len(call'.args) = 1) =>
                             /\ outcome' = "results"
                             /\ Stored(cached_searches, key) = { returned'.results }
                  ELSE outcome' = "results" =>
                             /\ store_queries' = 1
                             /\ Stored(cached_searches', key) = { returned'.results }
      ]_vars

\* C4 witness: a search served from the cache with a result set that the
\* store, indexed again since, would no longer give.
C4_Witness ==
    /\ call = [ op |-> "search", data_type |-> "tracks", args |-> << << "a" >> >> ]
    /\ outcome = "results"
    /\ store_queries = 0
    /\ tables = DataTypes
    /\ Len(returned.results) # Len(rows["tracks"])
    /\ \A i \in 1..Len(rows["tracks"]) : rows["tracks"][i][1] \in { <<"a">>, <<"a", "b">> }

\* The last command was a play command that found its item and that no
\* device call failed: the search succeeded, the number is one of the result
\* set, and every call the device received was answered.
PlayCompleted(action) ==
    /\ call.op = "search"
    /\ Len(call.args) = 3
    /\ call.args[2] = action
    /\ Cardinality(EqualsIn(call.args[1])) <= 1
    /\ ExpectedKey(call.data_type, call.args[1]) \in CachedKeys(cached_searches)
    /\ ParseInt(call.args[3]).ok
    /\ \E results \in Stored(cached_searches, ExpectedKey(call.data_type, call.args[1])) :
          ParseInt(call.args[3]).value \in 1..Len(results)
    /\ \A i \in 1..Len(sonos_calls) : sonos_calls[i].ok

\* The item of the play command: the N-th result of its search.
PlayedItem ==
    LET results == CHOOSE r \in Stored(cached_searches,
                                       ExpectedKey(call.data_type, call.args[1])) : TRUE
        row == results[ParseInt(call.args[3]).value]
    IN  [ row[Len(row)].json EXCEPT !.kind = call.data_type ]

\* The calls that change the queue or the playback of the device.
Mutating(calls) ==
    SelectSeq(calls, LAMBDA c : c.op # "get_current_transport_info")

\* C5: a replace with a number N of the result set asks the device for its
\* transport state once, before anything else, and then calls clear_queue
\* once, add_to_queue once with the N-th result, and play once exactly when
\* the state it was given was PLAYING, in this order and with no other call;
\* it returns 'Queue replaced with' and the title of the N-th result.
C5_ReplaceCalls ==
    PlayCompleted(<< "replace" >>) =>
        /\ outcome = "played"
        /\ sonos_calls # << >>
        /\ sonos_calls[1].op = "get_current_transport_info"
        /\ Len(Mutating(sonos_calls)) = Len(sonos_calls) - 1
        /\ Mutating(sonos_calls) =
              << DeviceCall("clear_queue", NoItem, "", TRUE),
                 DeviceCall("add_to_queue", PlayedItem, "", TRUE) >>
              \o IF sonos_calls[1].state = "PLAYING"
                 THEN << DeviceCall("play", NoItem, "", TRUE) >>
                 ELSE << >>
        /\ returned = [ msg |-> "Queue replaced with", title |-> PlayedItem.title ]

\* C5 witness: the second of three tracks replaced the queue of a playing
\* device that stopped when its queue was cleared.
C5_Witness ==
    /\ PlayCompleted(<< "replace" >>)
    /\ call.data_type = "tracks"
    /\ call.args[3] = << "2" >>
    /\ \A r \in Stored(cached_searches, ExpectedKey("tracks", call.args[1])) : Len(r) = 3
    /\ sonos_calls[1].state = "PLAYING"
    /\ Len(sonos_calls) = 4
    /\ outcome = "played"

\* C6: an add with a number N of the result set calls add_to_queue once with
\* the N-th result and neither clear_queue nor play, whatever the transport
\* state, which it leaves as it was; it returns 'Added to queue' and the
\* title of the N-th result.
C6_AddCalls ==
    PlayCompleted(<< "add" >>) =>
        /\ outcome = "played"
        /\ sonos_calls # << >>
        /\ sonos_calls[1].op = "get_current_transport_info"
        /\ Mutating(sonos_calls) = << DeviceCall("add_to_queue", PlayedItem, "", TRUE) >>
        /\ Len(sonos_calls) = 2
        /\ returned = [ msg |-> "Added to queue", title |-> PlayedItem.title ]

\* C6 witness: the third of three tracks added to the queue of a playing
\* device.
C6_Witness ==
    /\ PlayCompleted(<< "add" >>)
    /\ call.data_type = "tracks"
    /\ call.args[3] = << "3" >>
    /\ sonos_calls[1].state = "PLAYING"
    /\ transport = "PLAYING"
    /\ outcome = "played"

\* C7: a search command on a store that has not exactly four tables fails
\* with NotIndexed whatever its arguments, and leaves the cache and the device
\* alone; on a store with four tables it never fails with NotIndexed, however
\* few rows the last index run left in them.
C7_NotIndexedFirst ==
    [][ SearchStep =>
            IF Cardinality(tables) # 4
            THEN /\ outcome' = "NotIndexed"
                 /\ cached_searches' = cached_searches
                 /\ inserted' = inserted
                 /\ store_queries' = 0
                 /\ sonos_calls' = << >>
                 /\ transport' = transport
            ELSE outcome' # "NotIndexed"
      ]_vars

\* C7 witness: NotIndexed for a key that is in the cache, the tables having
\* been dropped by an index run that was abandoned.
C7_Witness ==
    /\ call = [ op |-> "search", data_type |-> "tracks", args |-> << << "a" >> >> ]
    /\ outcome = "NotIndexed"
    /\ ExpectedKey("tracks", << "a" >>) \in CachedKeys(cached_searches)
    /\ tables = { }

\* text occurs in value.
Contains(value, text) ==
    \E k \in 1..(Len(value) - Len(text) + 1) :
        SubSeq(value, k, k + Len(text) - 1) = text

\* The columns of the tables that can be searched.
AllowedFields(dt) ==
    CASE dt = "tracks" -> << << "title" >>, << "album" >>, << "artist" >> >>
      [] dt = "albums" -> << << "title" >>, << "artist" >> >>
      [] dt = "artists" -> << << "title" >> >>
      [] dt = "playlists" -> << << "title" >> >>

\* The rows of a table with the text in the column of the field.
Matching(dt, field, text) ==
    LET c == CHOOSE i \in 1..Len(AllowedFields(dt)) : AllowedFields(dt)[i] = field
    IN  SelectSeq(rows[dt], LAMBDA row : Contains(row[c], text))

\* C8: on an indexed store, a search term with more than one '=' fails with
\* MalformedQuery and adds nothing to the cache; a term without '=' searches
\* the field title for the whole term, and a term with one '=' searches the
\* field before it for the text after it: the key under which the cache
\* holds the results is (item-type, field, %text%), and a search that asks
\* the store gets the rows whose field contains the text.
C8_TermParsing ==
    [][ (SearchStep /\ call'.args # << >> /\ tables = DataTypes) =>
            LET dt == call'.data_type
                s == call'.args[1]
            IN  IF Cardinality(EqualsIn(s)) > 1
                THEN /\ outcome' = "MalformedQuery"
                     /\ cached_searches' = cached_searches
                     /\ inserted' = inserted
                     /\ store_queries' = 0
                ELSE /\ outcome' # "MalformedQuery"
                     /\ outcome' = "UnknownField" => returned'.field = FieldOf(s)
                     /\ outcome' = "results" =>
                           /\ ExpectedKey(dt, s) \in CachedKeys(cached_searches')
                           /\ Stored(cached_searches', ExpectedKey(dt, s))
                                 = { returned'.results }
                           /\ store_queries' = 1 =>
                                 /\ inserted' = Append(inserted, ExpectedKey(dt, s))
                                 /\ returned'.results = Matching(dt, FieldOf(s), TextOf(s))
      ]_vars

\* C8 witness: album=a asked of the store found one track of two.
C8_Witness ==
    /\ call = [ op |-> "search", data_type |-> "tracks",
                args |-> << << "album", "=", "a" >> >> ]
    /\ outcome = "results"
    /\ store_queries = 1
    /\ Len(returned.results) = 1
    /\ Len(rows["tracks"]) = 2
    /\ cached_searches[Len(cached_searches)].key
          = << "tracks", << "album" >>, << "%", "a", "%" >> >>

\* C9: on an indexed store, a search whose field is none of the columns of
\* its item-type before the content column (title, album, artist for tracks;
\* title, artist for albums; title for artists and for playlists) fails with
\* UnknownField, which names those columns, and it neither asks the store nor
\* changes the cache; so content is a field of no item-type.
C9_UnknownField ==
    [][ (TermStep /\ tables = DataTypes
           /\ FieldOf(call'.args[1]) \notin Range(AllowedFields(call'.data_type))) =>
            /\ << "content" >> \notin Range(AllowedFields(call'.data_type))
            /\ outcome' = "UnknownField"
            /\ returned'.field = FieldOf(call'.args[1])
            /\ returned'.allowed = AllowedFields(call'.data_type)
            /\ store_queries' = 0
            /\ cached_searches' = cached_searches
            /\ inserted' = inserted
      ]_vars

\* C9 witness: content=a refused for artists, with searches in the cache.
C9_Witness ==
    /\ call = [ op |-> "search", data_type |-> "artists",
                args |-> << << "content", "=", "a" >> >> ]
    /\ outcome = "UnknownField"
    /\ returned.allowed = << << "title" >> >>
    /\ cached_searches # << >>

\* C10 as stated: a search command without arguments fails with
\* MissingSearchTerm.
C10_AsStated ==
    (call.op = "search" /\ call.args = << >>) => outcome = "MissingSearchTerm"

\* C10: a search command without arguments fails with MissingSearchTerm on a
\* store with four tables, and with NotIndexed on any other store.
C10_MissingSearchTerm ==
    (call.op = "search" /\ call.args = << >>) =>
        outcome = IF Cardinality(tables) = 4 THEN "MissingSearchTerm" ELSE "NotIndexed"

\* C10 witness: MissingSearchTerm for albums on an indexed store.
C10_Witness ==
    /\ call = [ op |-> "search", data_type |-> "albums", args |-> << >> ]
    /\ outcome = "MissingSearchTerm"
    /\ tables = DataTypes

\* The last command was a play command whose search succeeded, with the
\* action add or replace and a number that int() can parse.
PlayValidated ==
    /\ call.op = "search"
    /\ Len(call.args) = 3
    /\ call.args[2] \in { << "add" >>, << "replace" >> }
    /\ ParseInt(call.args[3]).ok
    /\ Cardinality(EqualsIn(call.args[1])) <= 1
    /\ ExpectedKey(call.data_type, call.args[1]) \in CachedKeys(cached_searches)

\* The result set of the search of the last play command.
PlayResults ==
    CHOOSE r \in Stored(cached_searches, ExpectedKey(call.data_type, call.args[1])) : TRUE

\* The number of the last play command.
PlayNumber == ParseInt(call.args[3]).value

\* C11: a play command with a valid action and a number N that parses fails
\* with NumberOutOfRange exactly when N is not one of 1..len(results), so for
\* N = 0 and for every negative N; the message is 'No results to play from'
\* for an empty result set, 'Play number can only be 1' for one result, and
\* the range from 1 to len(results) for more.
C11_NumberOutOfRange ==
    PlayValidated =>
        /\ outcome = "NumberOutOfRange" <=>
              (PlayNumber < 1 \/ PlayNumber > Len(PlayResults))
        /\ outcome = "NumberOutOfRange" =>
              /\ sonos_calls = << >>
              /\ returned =
                    CASE Len(PlayResults) = 0 -> [ msg |-> "No results to play from" ]
                      [] Len(PlayResults) = 1 -> [ msg |-> "Play number can only be 1" ]
                      [] OTHER ->
                           [ msg |-> "Play number has to be in the range from 1 to",
                             upper |-> Len(PlayResults) ]

\* C11 witness: number 0 refused for the three tracks found.
C11_Witness ==
    /\ PlayValidated
    /\ call.data_type = "tracks"
    /\ call.args[3] = << "0" >>
    /\ Len(PlayResults) = 3
    /\ outcome = "NumberOutOfRange"
    /\ returned.upper = 3

\* The rows of the first n items of an item-type of the library.
Mirror(t, n) ==
    [ i \in 1..n |->
        RowOf(ItemOf(t, i), RemoteFields(ColumnsIn(DataTypes, t))) ]

\* The last two index runs ran to their end and were given the same
\* total_matches for every item-type.
IndexedTwice ==
    /\ IndexCompleted
    /\ history.previous.outcome = "done"
    /\ history.previous.probed = probed

\* C12: when index has run to its end twice in a row against the same
\* library, the rows of every table after the second run are those after the
\* first: none twice, none more.
C12_ReindexIdempotent ==
    IndexedTwice =>
        /\ rows = history.previous.rows
        /\ committed.rows = history.previous.rows
        /\ \A t \in DataTypes : rows[t] = Mirror(t, probed[t])

\* C12 witness: two runs in a row that each mirrored two tracks.
C12_Witness ==
    /\ IndexedTwice
    /\ probed["tracks"] = 2
    /\ Len(history.previous.rows["tracks"]) = 2

\* C13 as stated: against a device that answers every request, a caller that
\* keeps consuming the progress sequence of index reaches its end.
C13_AsStated == (index_pc # "idle") ~> (index_pc = "idle")

\* What the generator, suspended in ingestion, has put into the table of the
\* i-th item-type: all that was announced for the item-types before the
\* current one, count rows for the current one, nothing for those after it.
Ingested(i) ==
    LET t == data_types[i]
    IN  IF i < data_type THEN Mirror(t, probed[t])
        ELSE IF i = data_type THEN Mirror(t, count)
        ELSE << >>

\* C14: a request that fails during index ends the run with the failure and
\* rolls nothing back: the four tables exist, the rows of the pages fetched
\* before are in the store, committed, and no other row is.
C14_NoRollback ==
    [][ (index_pc \in { "creating", "adding", "progress" } /\ outcome' = "RemoteError") =>
            /\ index_pc' = "idle"
            /\ tables' = DataTypes
            /\ index_pc # "creating" => rows' = rows
            /\ \A i \in 1..Len(data_types) : rows'[data_types[i]] = Ingested(i)
            /\ committed' = [ tables |-> tables', rows |-> rows' ]
      ]_vars

\* C14 witness: the request for the second page of tracks failed; the first
\* track is in the store.
C14_Witness ==
    /\ call.op = "index"
    /\ outcome = "RemoteError"
    /\ probed["tracks"] = 2
    /\ rows["tracks"] = Mirror("tracks", 1)
    /\ committed.rows["tracks"] = Mirror("tracks", 1)

\* A step of an index generator.
IndexStep == index_pc # "idle" \/ index_pc' # "idle"

\* C15: no step of index adds, removes or changes a cache entry, so a search
\* after a reindex is served what was cached before it, whatever the store
\* holds by then; an entry leaves the cache only as the oldest of a full
\* cache, when a search inserts a new key.
C15_IndexKeepsCache ==
    [][ /\ IndexStep => (cached_searches' = cached_searches /\ inserted' = inserted)
        /\ \A i \in 1..Len(cached_searches) :
              cached_searches[i].key \notin CachedKeys(cached_searches') =>
                 /\ SearchStep
                 /\ i = 1
                 /\ Len(cached_searches) = 10
                 /\ Len(inserted') = Len(inserted) + 1
        /\ (TermStep /\ tables = DataTypes /\ Len(call'.args) = 1
              /\ ExpectedKey(call'.data_type, call'.args[1]) \in CachedKeys(cached_searches)) =>
                 \E i \in 1..Len(cached_searches) :
                    /\ cached_searches[i].key = ExpectedKey(call'.data_type, call'.args[1])
                    /\ returned'.results = cached_searches[i].results
      ]_vars

\* C15 witness: index ran to its end with a result set in the cache that the
\* rebuilt store no longer gives.
C15_Witness ==
    /\ IndexCompleted
    /\ cached_searches # << >>
    /\ cached_searches[1].key = ExpectedKey("tracks", << "a" >>)
    /\ cached_searches[1].results # Matching("tracks", << "title" >>, << "a" >>)

\* The last command was a play command with the given action in which the
\* device failed at the given call.
PlayFailedAt(action, op) ==
    /\ call.op = "search"
    /\ Len(call.args) = 3
    /\ call.args[2] = action
    /\ \E i \in 1..Len(sonos_calls) : sonos_calls[i].op = op /\ ~sonos_calls[i].ok

\* C16: when add_to_queue fails in a replace, after clear_queue succeeded,
\* the command ends with the failure and without a confirmation; the device
\* was asked to clear its queue once and to add once, and nothing after that:
\* no second add, no play whatever the transport state was, nothing that
\* restores the queue.  When clear_queue fails, add_to_queue is never called.
C16_FailureSurfaces ==
    /\ PlayFailedAt(<< "replace" >>, "add_to_queue") =>
          /\ outcome = "RemoteError"
          /\ returned = [ msg |-> "" ]
          /\ Len(sonos_calls) = 3
          /\ sonos_calls[1].op = "get_current_transport_info" /\ sonos_calls[1].ok
          /\ sonos_calls[2] = DeviceCall("clear_queue", NoItem, "", TRUE)
          /\ sonos_calls[3].op = "add_to_queue" /\ ~sonos_calls[3].ok
    /\ PlayFailedAt(<< "replace" >>, "clear_queue") =>
          /\ outcome = "RemoteError"
          /\ returned = [ msg |-> "" ]
          /\ Len(sonos_calls) = 2
          /\ sonos_calls[1].op = "get_current_transport_info" /\ sonos_calls[1].ok
          /\ sonos_calls[2] = DeviceCall("clear_queue", NoItem, "", FALSE)

\* C16 witness: add_to_queue failed in a replace on a device that was
\* playing.
C16_Witness ==
    /\ PlayFailedAt(<< "replace" >>, "add_to_queue")
    /\ sonos_calls[1].state = "PLAYING"
    /\ outcome = "RemoteError"
    /\ transport = "STOPPED"

\* The last command was a play command that passed the validation of _play.
PlayReachedDevice ==
    /\ PlayValidated
    /\ PlayNumber \in 1..Len(PlayResults)

\* The calls of an operation among the device calls of the last command.
CallsOf(op) == SelectSeq(sonos_calls, LAMBDA c : c.op = op)

\* C17: a play command that passes validation reads the transport state
\* once, as its first device call, so before clear_queue and add_to_queue;
\* play is called only in a replace for which that read gave PLAYING, and,
\* when no call before it failed, in every such replace, whatever state the
\* device is in by then.
C17_StateReadOnceFirst ==
    PlayReachedDevice =>
        /\ sonos_calls # << >>
        /\ sonos_calls[1].op = "get_current_transport_info"
        /\ Len(CallsOf("get_current_transport_info")) = 1
        /\ Len(CallsOf("play")) <= 1
        /\ CallsOf("play") # << >> =>
              /\ call.args[2] = << "replace" >>
              /\ sonos_calls[1].state = "PLAYING"
              /\ sonos_calls[Len(sonos_calls)].op = "play"
        /\ ( /\ call.args[2] = << "replace" >>
             /\ sonos_calls[1].state = "PLAYING"
             /\ \E i \in 1..Len(sonos_calls) :
                   sonos_calls[i].op = "add_to_queue" /\ sonos_calls[i].ok )
              => CallsOf("play") # << >>

\* C17 witness: play was called, and failed, on a device that had stopped
\* when its queue was cleared; the state read before was PLAYING.
C17_Witness ==
    /\ PlayReachedDevice
    /\ sonos_calls[1].state = "PLAYING"
    /\ Len(sonos_calls) = 4
    /\ ~sonos_calls[4].ok
    /\ transport = "STOPPED"

\* The last command was a play command whose search succeeded.
PlaySearched ==
    /\ call.op = "search"
    /\ Len(call.args) = 3
    /\ Cardinality(EqualsIn(call.args[1])) <= 1
    /\ ExpectedKey(call.data_type, call.args[1]) \in CachedKeys(cached_searches)

\* C18: a play command whose action is neither add nor replace fails with
\* InvalidAction, whatever its number and its result set; one with a valid
\* action and a number that int() refuses fails with InvalidNumber, whatever
\* its result set.  Neither reaches the device.
C18_ValidationOrder ==
    PlaySearched =>
        IF call.args[2] \notin { << "add" >>, << "replace" >> }
        THEN /\ outcome = "InvalidAction"
             /\ returned = [ msg |-> "Action must be 'add' or 'replace'" ]
             /\ sonos_calls = << >>
        ELSE /\ outcome # "InvalidAction"
             /\ ~ParseInt(call.args[3]).ok =>
                   /\ outcome = "InvalidNumber"
                   /\ returned = [ msg |-> "Play number must be parseable as integer" ]
                   /\ sonos_calls = << >>
             /\ ParseInt(call.args[3]).ok => outcome # "InvalidNumber"

\* C18 witness: an unknown action with a number that is none, on the empty
\* result set of the playlists.
C18_Witness ==
    /\ PlaySearched
    /\ call.data_type = "playlists"
    /\ call.args[2] = << "remove" >>
    /\ call.args[3] = << "x" >>
    /\ PlayResults = << >>
    /\ outcome = "InvalidAction"

\* The order in which index is to ingest the item-types.
IngestionOrder == << "playlists", "artists", "albums", "tracks" >>

\* The caller holds a progress line of index: the generator is suspended at
\* it, or the caller stopped consuming there.
AtProgressLine ==
    /\ call.op = "index"
    /\ returned.msg = "progress"
    /\ index_pc = "progress" \/ (index_pc = "idle" /\ outcome = "abandoned")

\* The place in IngestionOrder of the last item-type whose ingestion began.
Reached ==
    CHOOSE k \in 0..Len(IngestionOrder) :
        /\ \A i \in 1..k : probed[IngestionOrder[i]] >= 0
        /\ \A i \in (k + 1)..Len(IngestionOrder) : probed[IngestionOrder[i]] < 0

\* C19: the item-types are ingested in the order playlists, artists, albums,
\* tracks, and a page is committed before its progress line is yielded: when
\* the caller holds a progress line, the store holds, committed, all rows of
\* the item-types before the current one, as many rows of the current one as
\* the line counts, these being the first of that item-type, and no row of a
\* later item-type; it holds the same when the caller stops consuming there.
C19_ProgressAfterCommit ==
    AtProgressLine =>
        /\ \E k \in 1..Len(IngestionOrder) :
              /\ \A i \in 1..k : probed[IngestionOrder[i]] >= 0
              /\ \A i \in (k + 1)..Len(IngestionOrder) : probed[IngestionOrder[i]] < 0
        /\ tables = DataTypes
        /\ committed = [ tables |-> tables, rows |-> rows ]
        /\ returned.total = probed[IngestionOrder[Reached]]
        /\ returned.count <= returned.total
        /\ \A i \in 1..Len(IngestionOrder) :
              LET t == IngestionOrder[i]
              IN  rows[t] = IF i < Reached THEN Mirror(t, probed[t])
                            ELSE IF i = Reached THEN Mirror(t, returned.count)
                            ELSE << >>

\* C19 witness: the caller stopped at the line '1 out of 2' for tracks; one
\* track is in the store.
C19_Witness ==
    /\ AtProgressLine
    /\ outcome = "abandoned"
    /\ returned.count = 1
    /\ returned.total = 2
    /\ probed["tracks"] = 2
    /\ Len(committed.rows["tracks"]) = 1

\* The index run before the current one was aborted: the device failed, or
\* the caller stopped consuming.
AfterAbortedRun ==
    /\ call.op = "index"
    /\ history.previous.outcome \in { "RemoteError", "abandoned" }

\* C20: an index run that follows an aborted one does not fail in the store,
\* and when it is consumed to its end the four tables exist and each holds
\* exactly the rows of the library as this run probed it, committed: nothing
\* of the aborted run is left.
C20_CleanAfterAbort ==
    AfterAbortedRun =>
        /\ outcome # "StoreError"
        /\ outcome = "done" =>
              /\ tables = DataTypes
              /\ committed = [ tables |-> tables, rows |-> rows ]
              /\ \A t \in DataTypes :
                    /\ probed[t] >= 0
                    /\ rows[t] = Mirror(t, probed[t])

\* C20 witness: the device failed after a page had been stored, and the
\* following run completed with both tracks of the library.
C20_Witness ==
    /\ AfterAbortedRun
    /\ history.previous.outcome = "RemoteError"
    /\ history.previous.left
    /\ outcome = "done"
    /\ probed["tracks"] = 2
    /\ Len(rows["tracks"]) = 2

\* The errors of a search command that come from its own checks.
CoreErrors ==
    { "NotIndexed", "MissingSearchTerm", "MalformedQuery", "UnknownField",
      "IncorrectSyntax", "InvalidAction", "InvalidNumber", "NumberOutOfRange" }

\* C21: a search command that ends in an error of its own checks has made no
\* call to the device: the transport state was not read, and the queue was
\* neither cleared nor added to.
C21_RejectedMakesNoCall ==
    (call.op = "search" /\ outcome \in CoreErrors) => sonos_calls = << >>

\* C21 witness: a command to replace the queue of a playing device with the
\* result numbered x was rejected.
C21_Witness ==
    /\ call.op = "search"
    /\ Len(call.args) = 3
    /\ call.args[2] = << "replace" >>
    /\ outcome = "InvalidNumber"
    /\ transport = "PLAYING"
    /\ sonos_calls = << >>

\* A cache key (item-type, field, pattern) with a field that can be searched
\* in the table of the item-type and a pattern %text%.
ValidKey(key) ==
    /\ Len(key) = 3
    /\ key[1] \in DataTypes
    /\ key[2] \in Range(AllowedFields(key[1]))
    /\ Len(key[3]) >= 2
    /\ key[3][1] = "%"
    /\ key[3][Len(key[3])] = "%"

\* The last command searched with a term whose field the item-type does not
\* have, or with more than one '='.
SearchedInvalid ==
    /\ call.op = "search"
    /\ call.args # << >>
    /\ \/ Cardinality(EqualsIn(call.args[1])) > 1
       \/ FieldOf(call.args[1]) \notin Range(AllowedFields(call.data_type))

\* C22: every key of the cache has a field that can be searched for its
\* item-type and a pattern %text%; a search with an unknown field or with
\* more than one '=' ends in an error, it is not answered, from the cache or
\* otherwise, and its key is not in the cache afterwards.
C22_CacheKeysValid ==
    /\ \A i \in 1..Len(cached_searches) : ValidKey(cached_searches[i].key)
    /\ \A i \in 1..Len(inserted) : ValidKey(inserted[i])
    /\ SearchedInvalid =>
          /\ outcome \in { "NotIndexed", "MalformedQuery", "UnknownField" }
          /\ \A i \in 1..Len(cached_searches) :
                cached_searches[i].key[1] = call.data_type =>
                    cached_searches[i].key[2] # FieldOf(call.args[1])

\* C22 witness: album=a was refused for albums while the cache held the
\* results of album=a for tracks.
C22_Witness ==
    /\ call = [ op |-> "search", data_type |-> "albums",
                args |-> << << "album", "=", "a" >> >> ]
    /\ outcome = "UnknownField"
    /\ << "tracks", << "album" >>, << "%", "a", "%" >> >> \in CachedKeys(cached_searches)

\* C23 as stated: every value the volume command assigns to the volume of
\* the device is within 0..100.
C23_AsStated ==
    call.op = "volume" =>
        \A i \in 1..Len(sonos_calls) : sonos_calls[i].value \in 0..MaxVolume

=============================================================================
